---- MODULE Spec2Model ----
(***************************************************************************)
(* Model of the OMA ortholog reconciliation pipeline of                    *)
(* wikidata-orthologs-bot: the sequential, caching, optionally writing run *)
(* of oma.py (main) and the data-parallel, read-only run of omarallel.py   *)
(* (process_row + aggregate_results under the __main__ driver).            *)
(*                                                                         *)
(* The knowledge base, the OMA browser and the directory listing are the   *)
(* environment: the identifier maps and the entities' claims are chosen    *)
(* once in Setup, every liveness probe and every statement construction or *)
(* submission draws its outcome when it happens.                           *)
(***************************************************************************)
EXTENDS Integers, Sequences, FiniteSets, TLC

\* ------------------------------------------------------------------ bounds
\* number of directory entries one run iterates over
MaxFiles == 2
\* number of data rows of the input files of one run, all files together
MaxRows == 2

\* --------------------------------------------------------------- constants
None == "None"
OMA_WD_ITEM_ID == "Q7104801"
P_ortholog == "P684"
P_found_in_taxon == "P703"
P_reference_url == "P854"
P_stated_in == "P248"
HTTP_OK == 200

\* ------------------------------------------------------ sampled environment
Genes == {"G1", "G2", "G3"}
\* the rows an input table is made of: G3 is the gene without item
Rows == { <<"G1", "G2">>, <<"G2", "G1">>, <<"G1", "G3">>, <<"G3", "G2">> }
\* os.listdir: the .csv entries a directory may hold, in the order they are
\* listed in; a run meets some of them (entries of another suffix are passed
\* over by line 127 and are left out)
Listing ==
  <<"homologs.csv", "orthologs_10090-9606.csv", "orthologs_9606-10090.csv",
    "orthologs_9606-7227.csv">>
FileNames == { Listing[i] : i \in 1..Len(Listing) }
Position(filename) == CHOOSE i \in 1..Len(Listing) : Listing[i] = filename
\* the entries that may come next once `done` have been iterated
Later(done) == { f \in FileNames : \A d \in done : Position(d) < Position(f) }

\* pattern.search(filename): the two captured groups, << >> for no match
NoMatch == << >>
pattern_search(filename) ==
  CASE filename = "orthologs_9606-10090.csv" -> <<"9606", "10090">>
    [] filename = "orthologs_10090-9606.csv" -> <<"10090", "9606">>
    [] filename = "orthologs_9606-7227.csv" -> <<"9606", "7227">>
    [] OTHER -> NoMatch

\* wdi_helpers.id_mapper(P594): G3 has no item
IdentifierMaps == { [g \in {"G1", "G2"} |-> IF g = "G1" THEN "Q1" ELSE "Q2"] }
\* wdi_helpers.id_mapper(P685): taxon 7227 has no item
TaxonMaps == { [t \in {"9606", "10090"} |-> IF t = "9606" THEN "Q15978631" ELSE "Q83310"] }

\* one encodes claim, reduced to the two values the pipeline reads from it
Claim(id, uniprot) == [id |-> id, uniprot |-> uniprot]
\* what WDItemEngine(...).get_wd_json_representation()["claims"]["P688"]
\* gives for a gene item: it raises when the item cannot be fetched or has
\* no encodes claim, else it is the list of encodes claims
Raises == [raises |-> TRUE, claims |-> << >>]
Encodes(claims) == [raises |-> FALSE, claims |-> claims]
EncodesOptions ==
  { Raises,
    Encodes(<<Claim("QB", "UB")>>),
    Encodes(<<Claim("QA", "UA"), Claim("QB", "UB")>>),
    Encodes(<<Claim("QA", None), Claim("QB", "UB")>>) }
\* the knowledge bases a run may meet: item Q2 encodes one protein, item Q1 is
\* any of the options
KnowledgeBases ==
  { [q \in {"Q1", "Q2"} |-> IF q = "Q1" THEN e1 ELSE Encodes(<<Claim("QB", "UB")>>)] :
      e1 \in EncodesOptions }

\* f"https://omabrowser.org/oma/vps/{uniprot}/"
oma_url(uniprot) == "https://omabrowser.org/oma/vps/" \o uniprot \o "/"
Urls == { oma_url(u) : u \in {"UA", "UB"} }

\* what requests.head(oma_url, timeout=5) may do: answer with a status code
\* or raise a RequestException
Response(status_code) == [raised |-> FALSE, status_code |-> status_code]
Responses == { Response(HTTP_OK), Response(404), [raised |-> TRUE, status_code |-> 0] }

\* contents of a directory entry: read_csv raises, or the table has no
\* gene1/gene2 column, or the rows
RowSeqs(n) == UNION { [1..k -> Rows] : k \in 0..n }
Unreadable == [kind |-> "Unreadable", rows |-> << >>]
NoGeneColumns == [kind |-> "NoGeneColumns", rows |-> << >>]
Table(rows) == [kind |-> "Table", rows |-> rows]
Contents(n) == {Unreadable, NoGeneColumns} \cup { Table(rows) : rows \in RowSeqs(n) }
\* the values an input of a step is drawn from, when the step reads it at all
Pick(read, values, unread) == IF read THEN values ELSE {unread}
\* what the last step read from a directory entry: the kind of its content,
\* its genes without item and the number of its rows with an item for both
\* genes; NoLoad when the last step read none
Loaded(content, mapper) ==
  [read |-> TRUE, kind |-> content.kind,
   missing |-> { content.rows[i][c] : i \in 1..Len(content.rows), c \in {1, 2} }
               \ DOMAIN mapper,
   mapped |-> Cardinality({ i \in 1..Len(content.rows) :
                              /\ content.rows[i][1] \in DOMAIN mapper
                              /\ content.rows[i][2] \in DOMAIN mapper })]
NoLoad == [read |-> FALSE, kind |-> "Table", missing |-> {}, mapped |-> 0]
NotWritten == [written |-> FALSE, rows |-> << >>]

BucketNames ==
  {"error_loading_files", "taxon_not_found", "gene_not_found", "genes_not_found",
   "missing_encodes_infos", "pairs_lost_due_to_missing_prot_info",
   "more_than_1_encodes", "oma_url_not_found"}
\* defaultdict(set)
NoErrors == [b \in BucketNames |-> {}]
Add(errs, bucket, key) == [errs EXCEPT ![bucket] = @ \cup {key}]
Update(errs, bucket, keys) == [errs EXCEPT ![bucket] = @ \cup keys]

EmptyMap == [x \in {} |-> x]
Bump(counter, key) == [counter EXCEPT ![key] = @ + 1]
RECURSIVE BumpAll(_, _)
BumpAll(counter, keys) ==
  IF keys = << >> THEN counter ELSE BumpAll(Bump(counter, Head(keys)), Tail(keys))

VARIABLES
  variant,            \* "seq": oma.py main; "par": omarallel.py __main__
  write,              \* args.write
  creds,              \* WDUSER and WDPASS are both in os.environ
  pc,                 \* "setup", "process", "rows", "apply", "done", "aborted"
  abortCause,         \* the uncaught exception that ended the run, or None
  geneid_to_wdid,     \* geneid_to_wdid / ensembl_mapper
  taxon_to_wdid,
  kb,                 \* item id -> its encodes claims (environment)
  filesDone,          \* directory entries already iterated
  filename,           \* the entry iterated last, None before the first
  loaded,             \* what the last step read from that entry, or NoLoad
  taxons,             \* (taxon1, taxon2) of the current file
  df,                 \* rows of the current file still to be handled
  valid_orthos,
  oma_url_found,
  wd_items,
  errors,             \* errors (seq) / combined_errors (par)
  error_loading_files,\* the separate set of omarallel.py
  results,            \* results of parallel_apply for the current file
  submissions,        \* try_write calls made with write=True
  csv,                \* valid_ortholog_pairs.csv
  fetches,            \* gene -> number of entity fetches
  okFetches,          \* gene -> number of fetches that returned encodes claims
  probes,             \* url -> number of is_oma_url_valid calls
  liveProbes,         \* url -> number of probes answered with status 200
  lookupRows,         \* rows on whose behalf a fetch or a probe was made
  unresolvedRows,     \* rows dropped because a gene's protein was not resolved
  rowsRead            \* number of data rows read from the input files

vars ==
  <<variant, write, creds, pc, abortCause, geneid_to_wdid, taxon_to_wdid, kb,
    filesDone, filename, loaded, taxons, df, valid_orthos, oma_url_found, wd_items,
    errors, error_loading_files, results, submissions, csv, fetches, okFetches,
    probes, liveProbes, lookupRows, unresolvedRows, rowsRead>>

envVars == <<variant, write, creds, geneid_to_wdid, taxon_to_wdid, kb>>
fileVars == <<filesDone, filename, taxons, rowsRead>>
ghostVars == <<fetches, okFetches, probes, liveProbes, lookupRows, unresolvedRows>>

Init ==
  /\ variant \in {"seq", "par"}
  /\ write \in BOOLEAN
  /\ creds \in BOOLEAN
  /\ variant = "par" => (~write /\ ~creds)
  /\ pc = "setup"
  /\ abortCause = None
  /\ geneid_to_wdid = EmptyMap
  /\ taxon_to_wdid = EmptyMap
  /\ kb = EmptyMap
  /\ filesDone = {}
  /\ filename = None
  /\ loaded = NoLoad
  /\ taxons = NoMatch
  /\ df = <<>>
  /\ valid_orthos = <<>>
  /\ oma_url_found = {}
  /\ wd_items = EmptyMap
  /\ errors = NoErrors
  /\ error_loading_files = {}
  /\ results = <<>>
  /\ submissions = <<>>
  /\ csv = NotWritten
  /\ fetches = [g \in Genes |-> 0]
  /\ okFetches = [g \in Genes |-> 0]
  /\ probes = [u \in Urls |-> 0]
  /\ liveProbes = [u \in Urls |-> 0]
  /\ lookupRows = {}
  /\ unresolvedRows = {}
  /\ rowsRead = 0

\* ------------------------------------------------------------------- Setup
\* oma.py 91-95: the login is attempted whatever args.write is
credentials_missing(w, c) == ~c

Abort(cause) ==
  /\ pc' = "aborted"
  /\ abortCause' = cause

SetupSeq ==
  /\ loaded' = NoLoad
  /\ variant = "seq"
  /\ pc = "setup"
  /\ IF credentials_missing(write, creds)
       THEN /\ Abort("ValueError: WDUSER and WDPASS must be specified")
            /\ UNCHANGED <<geneid_to_wdid, taxon_to_wdid, kb>>
       ELSE /\ geneid_to_wdid' \in IdentifierMaps
            /\ taxon_to_wdid' \in TaxonMaps
            /\ kb' \in KnowledgeBases
            /\ pc' = "process"
            /\ UNCHANGED abortCause
  /\ UNCHANGED <<variant, write, creds, fileVars, df, valid_orthos, oma_url_found,
                 wd_items, errors, error_loading_files, results, submissions, csv,
                 ghostVars>>

SetupPar ==
  /\ loaded' = NoLoad
  /\ variant = "par"
  /\ pc = "setup"
  /\ geneid_to_wdid' \in IdentifierMaps
  /\ kb' \in KnowledgeBases
  /\ pc' = "process"
  /\ UNCHANGED <<variant, write, creds, abortCause, taxon_to_wdid, fileVars, df,
                 valid_orthos, oma_url_found, wd_items, errors, error_loading_files,
                 results, submissions, csv, ghostVars>>

\* ------------------------------------------------- oma.py: one file of main
\* the filter with | for &
keep_row_either(row, mapper) == row[1] \in DOMAIN mapper \/ row[2] \in DOMAIN mapper
\* line 158: df[gene1.isin(geneid_to_wdid) & gene2.isin(geneid_to_wdid)]
keep_row(row, mapper) == row[1] \in DOMAIN mapper /\ row[2] \in DOMAIN mapper
filter_rows(rows, mapper) == SelectSeq(rows, LAMBDA r : keep_row(r, mapper))
\* lines 152-153: set(df[column]) - set(geneid_to_wdid.keys())
missing_genes(rows, column, mapper) ==
  { rows[i][column] : i \in 1..Len(rows) } \ DOMAIN mapper
\* the loop without its `if not match_taxon: continue`
skip_unmatched_never(groups) == FALSE
\* lines 138-140: a file whose name does not match the pattern is skipped
skip_unmatched(groups) == groups = NoMatch

LoadFileSeq ==
  /\ variant = "seq"
  /\ pc = "process"
  /\ Cardinality(filesDone) < MaxFiles
  /\ \E entry \in Later(filesDone) :
     \E content \in Contents(MaxRows - rowsRead) :
       LET groups == pattern_search(entry)
           rows == content.rows
           missing_gene1 == missing_genes(rows, 1, geneid_to_wdid)
           missing_gene2 == missing_genes(rows, 2, geneid_to_wdid)
           kept == filter_rows(rows, geneid_to_wdid)
       IN
       /\ filesDone' = filesDone \cup {entry}
       /\ filename' = entry
       /\ rowsRead' = rowsRead + Len(rows)
       /\ loaded' = Loaded(content, geneid_to_wdid)
       /\ IF content.kind = "Unreadable"
            THEN /\ errors' = Add(errors, "error_loading_files", entry)
                 /\ UNCHANGED <<pc, abortCause, df, taxons>>
          ELSE IF skip_unmatched(groups)
            THEN UNCHANGED <<pc, abortCause, errors, df, taxons>>
          ELSE IF groups = NoMatch
            \* match_taxon.groups() on None
            THEN /\ Abort("AttributeError: groups")
                 /\ UNCHANGED <<errors, df, taxons>>
          ELSE IF groups[1] \notin DOMAIN taxon_to_wdid
            THEN /\ errors' = Add(errors, "taxon_not_found", groups[1])
                 /\ UNCHANGED <<pc, abortCause, df, taxons>>
          ELSE IF groups[2] \notin DOMAIN taxon_to_wdid
            THEN /\ errors' = Add(errors, "taxon_not_found", groups[2])
                 /\ UNCHANGED <<pc, abortCause, df, taxons>>
          ELSE IF content.kind = "NoGeneColumns"
            \* df["gene1"] outside any try
            THEN /\ Abort("KeyError: gene1")
                 /\ UNCHANGED <<errors, df, taxons>>
          ELSE /\ errors' = Update(Update(errors, "gene_not_found", missing_gene1),
                                   "gene_not_found", missing_gene2)
               /\ df' = kept
               /\ taxons' = groups
               /\ pc' = IF kept = << >> THEN "process" ELSE "rows"
               /\ UNCHANGED abortCause
  /\ UNCHANGED <<envVars, valid_orthos, oma_url_found, wd_items, error_loading_files,
                 results, submissions, csv, ghostVars>>

\* -------------------------------------------------- resolving and validating
\* WDItemEngine(wd_item_id=mapper[gene]).get_wd_json_representation()
\*   ["claims"]["P688"], inside its try: a gene without item raises too, and
\* so does a fetch the knowledge base does not answer
fetch_encodes(gene, mapper, base, answered) ==
  IF gene \in DOMAIN mapper /\ answered THEN base[mapper[gene]] ELSE Raises
\* prot[0]: the first encodes claim, by claim order
first_claim(claims) == claims[1]
\* prot[0]["mainsnak"]["datavalue"]["value"]["id"] and
\* prot[0]["references"][0]["snaks"]["P352"][0]["datavalue"]["value"]
extract(claims) ==
  IF Len(claims) = 0 \/ first_claim(claims).id = None \/ first_claim(claims).uniprot = None
    THEN [raises |-> TRUE, wdid |-> None, uniprot |-> None]
    ELSE [raises |-> FALSE, wdid |-> first_claim(claims).id,
          uniprot |-> first_claim(claims).uniprot]
\* the probe without its comparison of the status code
is_oma_url_valid_any_status(response) == ~response.raised
\* is_oma_url_valid: status 200 is live, anything else and any exception is not
is_oma_url_valid(response) == ~response.raised /\ response.status_code = HTTP_OK
IsLive(response) == ~response.raised /\ response.status_code = 200

\* the loop without its wd_items[gene] = prot
cache_item_dropped(items, gene, claims) == items
\* oma.py line 176 / 189: wd_items[gene] = prot
cache_item(items, gene, claims) ==
  [g \in DOMAIN items \cup {gene} |-> IF g = gene THEN claims ELSE items[g]]
\* the loop without its oma_url_found.add(oma_url)
url_found_dropped(found, url) == found
\* oma.py line 221 / 228: oma_url_found.add(oma_url)
url_found(found, url) == found \cup {url}

\* oma.py 235-262 and 273-292: the two reciprocal statements
Statement(subject, value, taxon, url) ==
  [subject |-> subject, property |-> P_ortholog, value |-> value,
   qualifier |-> [property |-> P_found_in_taxon, value |-> taxon],
   stated_in |-> [property |-> P_stated_in, value |-> OMA_WD_ITEM_ID],
   reference_url |-> [property |-> P_reference_url, value |-> url]]
\* wdi_helpers.try_write(item, ..., write=write): with write set the item is
\* submitted, and a failing submission is caught and returned, not raised
try_write(subs, item, w, ok) ==
  IF w THEN Append(subs, [item |-> item, ok |-> ok]) ELSE subs

\* oma.py 167-178 and 180-191: the encodes claims of a gene, from wd_items or
\* from the knowledge base, and wd_items afterwards
lookup(items, gene, mapper, base, answered) ==
  LET hit == gene \in DOMAIN items
      enc == IF hit THEN Encodes(items[gene])
             ELSE fetch_encodes(gene, mapper, base, answered)
  IN [ enc |-> enc,
       call |-> ~hit /\ gene \in DOMAIN mapper,
       items |-> IF hit \/ enc.raises THEN items ELSE cache_item(items, gene, enc.claims) ]

\* oma.py 216-221 and 223-228: the probe of one URL unless it is in
\* oma_url_found, and oma_url_found afterwards
validate(found, url, resolved, response) ==
  LET probe == resolved /\ url \notin found
  IN [ probe |-> probe,
       dead |-> probe /\ ~is_oma_url_valid(response),
       live |-> probe /\ IsLive(response),
       found |-> IF probe /\ is_oma_url_valid(response) THEN url_found(found, url)
                 ELSE found ]

ProcessRowSeq ==
  /\ loaded' = NoLoad
  /\ variant = "seq"
  /\ pc = "rows"
  /\ df # << >>
  /\ LET row == Head(df)
         gene1 == row[1]
         gene2 == row[2]
     IN
     \* lines 167-191
     \E answered1 \in Pick(gene1 \notin DOMAIN wd_items, BOOLEAN, TRUE) :
     \E l1 \in {lookup(wd_items, gene1, geneid_to_wdid, kb, answered1)} :
     \E answered2 \in Pick(~l1.enc.raises /\ gene2 \notin DOMAIN l1.items, BOOLEAN, TRUE) :
     \E l2 \in {lookup(l1.items, gene2, geneid_to_wdid, kb, answered2)} :
     \* lines 199-211
     \E prot1 \in {extract(l1.enc.claims)} :
     \E prot2 \in {extract(l2.enc.claims)} :
     \E resolved \in {~l1.enc.raises /\ ~l2.enc.raises /\ ~prot1.raises /\ ~prot2.raises} :
     \* lines 213-214
     \E oma_url1 \in {oma_url(prot1.uniprot)} :
     \E oma_url2 \in {oma_url(prot2.uniprot)} :
     \* lines 216-228
     \E response1 \in Pick(resolved /\ oma_url1 \notin oma_url_found, Responses,
                           Response(HTTP_OK)) :
     \E v1 \in {validate(oma_url_found, oma_url1, resolved, response1)} :
     \E response2 \in Pick(resolved /\ ~v1.dead /\ oma_url2 \notin v1.found, Responses,
                           Response(HTTP_OK)) :
     \E v2 \in {validate(v1.found, oma_url2, resolved /\ ~v1.dead, response2)} :
     \E validated \in {resolved /\ ~v1.dead /\ ~v2.dead} :
     \* whether WDItemEngine(...) builds item1 and item2, whether the two
     \* submissions succeed
     \E built1 \in Pick(validated, BOOLEAN, TRUE) :
     \E ok1 \in Pick(validated /\ built1 /\ write, BOOLEAN, TRUE) :
     \E built2 \in Pick(validated /\ built1, BOOLEAN, TRUE) :
     \E ok2 \in Pick(validated /\ built1 /\ built2 /\ write, BOOLEAN, TRUE) :
     \* where the handling of the row ends
     \E stage \in { IF l1.enc.raises THEN 1
                    ELSE IF l2.enc.raises THEN 2
                    ELSE IF prot1.raises THEN 3
                    ELSE IF prot2.raises THEN 4
                    ELSE IF v1.dead THEN 5
                    ELSE IF v2.dead THEN 6
                    ELSE IF ~built1 THEN 7
                    ELSE IF ~built2 THEN 8
                    ELSE 9 } :
     LET lost == Add(errors, "pairs_lost_due_to_missing_prot_info", gene1 \o gene2)
         \* lines 194-197
         warn1 == IF Len(l1.enc.claims) > 1 THEN Add(errors, "more_than_1_encodes", gene1)
                  ELSE errors
         warn2 == IF Len(l2.enc.claims) > 1 THEN Add(warn1, "more_than_1_encodes", gene2)
                  ELSE warn1
         \* lines 235-300
         item1 == Statement(geneid_to_wdid[gene1], geneid_to_wdid[gene2],
                            taxon_to_wdid[taxons[2]], oma_url1)
         item2 == Statement(geneid_to_wdid[gene2], geneid_to_wdid[gene1],
                            taxon_to_wdid[taxons[1]], oma_url2)
         subs1 == try_write(submissions, item1, write, ok1)
         subs2 == try_write(subs1, item2, write, ok2)
         \* lines 308-323
         pair == [gene1 |-> gene1, gene2 |-> gene2,
                  gene1_wdid |-> geneid_to_wdid[gene1],
                  gene2_wdid |-> geneid_to_wdid[gene2],
                  prot1_wdid |-> prot1.wdid, prot2_wdid |-> prot2.wdid,
                  prot1_uniprot |-> prot1.uniprot, prot2_uniprot |-> prot2.uniprot,
                  taxon1_wdid |-> taxon_to_wdid[taxons[1]],
                  taxon2_wdid |-> taxon_to_wdid[taxons[2]],
                  oma_url1 |-> oma_url1, oma_url2 |-> oma_url2]
         called == (IF l1.call THEN <<gene1>> ELSE << >>)
                   \o (IF stage >= 2 /\ l2.call THEN <<gene2>> ELSE << >>)
         calledOk == (IF l1.call /\ ~l1.enc.raises THEN <<gene1>> ELSE << >>)
                     \o (IF stage >= 2 /\ l2.call /\ ~l2.enc.raises THEN <<gene2>> ELSE << >>)
         probed == (IF v1.probe THEN <<oma_url1>> ELSE << >>)
                   \o (IF v2.probe THEN <<oma_url2>> ELSE << >>)
         probedLive == (IF v1.live THEN <<oma_url1>> ELSE << >>)
                       \o (IF v2.live THEN <<oma_url2>> ELSE << >>)
     IN
     /\ df' = Tail(df)
     /\ wd_items' = IF stage = 1 THEN l1.items ELSE l2.items
     /\ errors' =
          IF stage = 1 THEN Add(lost, "missing_encodes_infos", gene1)
          ELSE IF stage = 2 THEN Add(lost, "missing_encodes_infos", gene2)
          ELSE IF stage = 3 THEN Add(warn2, "missing_encodes_infos", gene1)
          ELSE IF stage = 4 THEN Add(warn2, "missing_encodes_infos", gene2)
          ELSE IF stage = 5 THEN Add(warn2, "oma_url_not_found", oma_url1)
          ELSE IF stage = 6 THEN Add(warn2, "oma_url_not_found", oma_url2)
          ELSE warn2
     /\ oma_url_found' = v2.found
     /\ fetches' = BumpAll(fetches, called)
     /\ okFetches' = BumpAll(okFetches, calledOk)
     /\ probes' = BumpAll(probes, probed)
     /\ liveProbes' = BumpAll(liveProbes, probedLive)
     /\ lookupRows' = IF called # << >> \/ probed # << >>
                        THEN lookupRows \cup {row} ELSE lookupRows
     /\ unresolvedRows' = IF stage <= 4 THEN unresolvedRows \cup {row}
                            ELSE unresolvedRows
     /\ submissions' = IF stage <= 7 THEN submissions
                       ELSE IF stage = 8 THEN subs1 ELSE subs2
     /\ valid_orthos' = IF stage = 9 THEN Append(valid_orthos, pair) ELSE valid_orthos
     /\ IF stage = 7 THEN Abort("WDItemEngine: item1")
        ELSE IF stage = 8 THEN Abort("WDItemEngine: item2")
        ELSE /\ pc' = IF Tail(df) = << >> THEN "process" ELSE "rows"
             /\ UNCHANGED abortCause
  /\ UNCHANGED <<envVars, fileVars, error_loading_files, results, csv>>

\* oma.py 325-332: the summary and valid_ortholog_pairs.csv
ReportSeq ==
  /\ loaded' = NoLoad
  /\ variant = "seq"
  /\ pc = "process"
  /\ csv' = [written |-> TRUE, rows |-> valid_orthos]
  /\ pc' = "done"
  /\ UNCHANGED <<envVars, abortCause, fileVars, df, valid_orthos, oma_url_found,
                 wd_items, errors, error_loading_files, results, submissions,
                 ghostVars>>

\* ------------------------------------------------------------ omarallel.py
\* lines 48-53: the two membership tests that open process_row
unmapped_gene(gene1, gene2, mapper) ==
  IF gene1 \notin DOMAIN mapper THEN <<gene1>>
  ELSE IF gene2 \notin DOMAIN mapper THEN <<gene2>>
  ELSE << >>

\* process_row(row, ensembl_mapper): the returned {"data", "errors"}, data
\* being << >> for None, and the lookups the call made
process_row(row, mapper, base, answered1, answered2, response1, response2) ==
  LET gene1 == row[1]
      gene2 == row[2]
      none == unmapped_gene(gene1, gene2, mapper)
      enc1 == fetch_encodes(gene1, mapper, base, answered1)
      enc2 == fetch_encodes(gene2, mapper, base, answered2)
      warn1 == IF Len(enc1.claims) > 1 THEN Add(NoErrors, "more_than_1_encodes", gene1)
               ELSE NoErrors
      warn2 == IF Len(enc2.claims) > 1 THEN Add(warn1, "more_than_1_encodes", gene2)
               ELSE warn1
      prot1 == extract(enc1.claims)
      prot2 == extract(enc2.claims)
      oma_url1 == oma_url(prot1.uniprot)
      oma_url2 == oma_url(prot2.uniprot)
      data == [gene1 |-> gene1, gene2 |-> gene2,
               gene1_wdid |-> mapper[gene1], gene2_wdid |-> mapper[gene2],
               prot1_wdid |-> prot1.wdid, prot2_wdid |-> prot2.wdid,
               prot1_uniprot |-> prot1.uniprot, prot2_uniprot |-> prot2.uniprot,
               oma_url1 |-> oma_url1, oma_url2 |-> oma_url2]
      stage == IF none # << >> THEN 0
               ELSE IF enc1.raises THEN 1
               ELSE IF enc2.raises THEN 2
               ELSE IF prot1.raises THEN 3
               ELSE IF prot2.raises THEN 4
               ELSE IF ~is_oma_url_valid(response1) THEN 5
               ELSE IF ~is_oma_url_valid(response2) THEN 6
               ELSE 9
  IN [ data |-> IF stage = 9 THEN <<data>> ELSE << >>,
       errors |->
         IF stage = 0 THEN Add(NoErrors, "genes_not_found", none[1])
         ELSE IF stage = 1 THEN Add(NoErrors, "missing_encodes_infos", gene1)
         ELSE IF stage = 2 THEN Add(NoErrors, "missing_encodes_infos", gene2)
         ELSE IF stage = 3 THEN Add(warn2, "missing_encodes_infos", gene1)
         ELSE IF stage = 4 THEN Add(warn2, "missing_encodes_infos", gene2)
         ELSE IF stage = 5 THEN Add(warn2, "oma_url_not_found", oma_url1)
         ELSE IF stage = 6 THEN Add(warn2, "oma_url_not_found", oma_url2)
         \* line 116: the success result carries "errors": {}
         ELSE NoErrors,
       \* the returns of lines 61, 69, 83 and 90
       unresolved |-> stage \in 1..4,
       fetched |-> IF stage = 0 THEN << >>
                   ELSE IF stage = 1 THEN <<gene1>> ELSE <<gene1, gene2>>,
       fetchedOk |-> IF stage <= 1 THEN << >>
                     ELSE IF stage = 2 THEN <<gene1>> ELSE <<gene1, gene2>>,
       probed |-> IF stage <= 4 THEN << >>
                  ELSE IF stage = 5 THEN <<oma_url1>> ELSE <<oma_url1, oma_url2>>,
       probedLive |-> IF stage <= 4 THEN << >>
                      ELSE (IF IsLive(response1) THEN <<oma_url1>> ELSE << >>)
                           \o (IF stage >= 6 /\ IsLive(response2) THEN <<oma_url2>>
                               ELSE << >>) ]

\* whether process_row(row, ...) gets as far as probing the first URL
resolves(row, mapper, base, answered1, answered2) ==
  /\ unmapped_gene(row[1], row[2], mapper) = << >>
  /\ ~fetch_encodes(row[1], mapper, base, answered1).raises
  /\ ~fetch_encodes(row[2], mapper, base, answered2).raises
  /\ ~extract(fetch_encodes(row[1], mapper, base, answered1).claims).raises
  /\ ~extract(fetch_encodes(row[2], mapper, base, answered2).claims).raises

\* aggregate_results(results, valid_orthos, combined_errors)
RECURSIVE aggregate_results(_, _, _)
aggregate_results(res, valid, combined) ==
  IF res = << >> THEN [valid |-> valid, errors |-> combined]
  ELSE LET result == Head(res)
           valid1 == IF result.data # << >> THEN Append(valid, result.data[1]) ELSE valid
           combined1 == [b \in BucketNames |-> combined[b] \cup result.errors[b]]
       IN aggregate_results(Tail(res), valid1, combined1)

\* __main__ 133-144, up to the call of parallel_apply
LoadFilePar ==
  /\ variant = "par"
  /\ pc = "process"
  /\ Cardinality(filesDone) < MaxFiles
  /\ \E entry \in Later(filesDone) :
     \E content \in Contents(MaxRows - rowsRead) :
       /\ filesDone' = filesDone \cup {entry}
       /\ filename' = entry
       /\ rowsRead' = rowsRead + Len(content.rows)
       /\ loaded' = Loaded(content, geneid_to_wdid)
       /\ IF content.kind = "Unreadable"
            THEN /\ error_loading_files' = error_loading_files \cup {entry}
                 /\ UNCHANGED <<pc, abortCause, df, results>>
          ELSE IF content.kind = "NoGeneColumns"
            \* row["gene1"] in process_row, raised out of parallel_apply
            THEN /\ Abort("KeyError: gene1")
                 /\ UNCHANGED <<error_loading_files, df, results>>
          ELSE /\ df' = content.rows
               /\ results' = << >>
               /\ pc' = "apply"
               /\ UNCHANGED <<abortCause, error_loading_files>>
  /\ UNCHANGED <<envVars, taxons, valid_orthos, oma_url_found, wd_items, errors,
                 submissions, csv, ghostVars>>

\* one row of df.parallel_apply(process_row, axis=1, args=(ensembl_mapper,));
\* the rows share no state, their results are collected in row order
ProcessRowPar ==
  /\ loaded' = NoLoad
  /\ variant = "par"
  /\ pc = "apply"
  /\ df # << >>
  /\ \E answered1 \in Pick(unmapped_gene(Head(df)[1], Head(df)[2], geneid_to_wdid) = << >>,
                            BOOLEAN, TRUE) :
     \E answered2 \in Pick(/\ unmapped_gene(Head(df)[1], Head(df)[2], geneid_to_wdid) = << >>
                           /\ ~fetch_encodes(Head(df)[1], geneid_to_wdid, kb, answered1).raises,
                           BOOLEAN, TRUE) :
     \E resolved \in {resolves(Head(df), geneid_to_wdid, kb, answered1, answered2)} :
     \E response1 \in Pick(resolved, Responses, Response(HTTP_OK)) :
     \E response2 \in Pick(resolved /\ is_oma_url_valid(response1), Responses,
                           Response(HTTP_OK)) :
     \E result \in {process_row(Head(df), geneid_to_wdid, kb, answered1, answered2,
                                response1, response2)} :
     /\ results' = Append(results, [data |-> result.data, errors |-> result.errors])
     /\ fetches' = BumpAll(fetches, result.fetched)
     /\ okFetches' = BumpAll(okFetches, result.fetchedOk)
     /\ probes' = BumpAll(probes, result.probed)
     /\ liveProbes' = BumpAll(liveProbes, result.probedLive)
     /\ lookupRows' = IF result.fetched # << >> THEN lookupRows \cup {Head(df)}
                      ELSE lookupRows
     /\ unresolvedRows' = IF result.unresolved THEN unresolvedRows \cup {Head(df)}
                          ELSE unresolvedRows
  /\ df' = Tail(df)
  /\ UNCHANGED <<envVars, pc, abortCause, fileVars, valid_orthos, oma_url_found,
                 wd_items, errors, error_loading_files, submissions, csv>>

\* __main__ 145
AggregatePar ==
  /\ loaded' = NoLoad
  /\ variant = "par"
  /\ pc = "apply"
  /\ df = << >>
  /\ LET merged == aggregate_results(results, valid_orthos, errors)
     IN /\ valid_orthos' = merged.valid
        /\ errors' = merged.errors
  /\ results' = << >>
  /\ pc' = "process"
  /\ UNCHANGED <<envVars, abortCause, fileVars, df, oma_url_found, wd_items,
                 error_loading_files, submissions, csv, ghostVars>>

\* __main__ 147-155
ReportPar ==
  /\ loaded' = NoLoad
  /\ variant = "par"
  /\ pc = "process"
  /\ csv' = [written |-> TRUE, rows |-> valid_orthos]
  /\ pc' = "done"
  /\ UNCHANGED <<envVars, abortCause, fileVars, df, valid_orthos, oma_url_found,
                 wd_items, errors, error_loading_files, results, submissions,
                 ghostVars>>

Next ==
  \/ SetupSeq
  \/ LoadFileSeq
  \/ ProcessRowSeq
  \/ ReportSeq
  \/ SetupPar
  \/ LoadFilePar
  \/ ProcessRowPar
  \/ AggregatePar
  \/ ReportPar

Spec == Init /\ [][Next]_vars

TypeOK ==
  /\ variant \in {"seq", "par"}
  /\ pc \in {"setup", "process", "rows", "apply", "done", "aborted"}
  /\ Len(df) <= MaxRows
  /\ rowsRead <= MaxRows
  /\ oma_url_found \subseteq Urls

\* ------------------------------------------------------------------ claims
\* the records of the validated-pairs list, those of the current file's
\* parallel results included
Pairs ==
  { valid_orthos[i] : i \in 1..Len(valid_orthos) }
    \cup { results[i].data[1] : i \in { j \in 1..Len(results) : results[j].data # << >> } }

\* gene g of a record resolved to (wdid, uniprot) and url was confirmed live
Checked(g, wdid, uniprot, url) ==
  /\ g \in DOMAIN geneid_to_wdid
  /\ ~kb[geneid_to_wdid[g]].raises
  /\ wdid # None
  /\ uniprot # None
  /\ wdid = kb[geneid_to_wdid[g]].claims[1].id
  /\ uniprot = kb[geneid_to_wdid[g]].claims[1].uniprot
  /\ url = "https://omabrowser.org/oma/vps/" \o uniprot \o "/"
  /\ url \in Urls
  /\ liveProbes[url] >= 1

\* C1: every record of the validated-pairs list, in both pipelines, has both
\* genes in the identifier map, both genes resolved to a protein id and a
\* UniProt accession by their encodes claims, and both derived URLs answered
\* live by a probe of this run.
C1_ValidatedPairsChecked ==
  \A v \in Pairs :
    /\ Checked(v.gene1, v.prot1_wdid, v.prot1_uniprot, v.oma_url1)
    /\ Checked(v.gene2, v.prot2_wdid, v.prot2_uniprot, v.oma_url2)

\* two pairs validated by the sequential run, the second on the remembered
\* live probes of the first
C1_Witness ==
  /\ variant = "seq"
  /\ Len(valid_orthos) = 2
  /\ \A u \in Urls : probes[u] <= 1

\* C2: no fetch and no probe is ever made on behalf of a row one of whose
\* genes is not a key of the identifier map.
C2_NoLookupForUnmappedRow ==
  \A row \in lookupRows :
    row[1] \in DOMAIN geneid_to_wdid /\ row[2] \in DOMAIN geneid_to_wdid

\* an unmapped gene was met and reported, while another row was looked up
C2_Witness ==
  /\ "G3" \in errors["gene_not_found"] \cup errors["genes_not_found"]
  /\ lookupRows # {}

C5_CredentialsOnlyForWrite ==
  (pc = "aborted" /\ abortCause = "ValueError: WDUSER and WDPASS must be specified")
    => (write /\ ~creds)

\* the pipeline gets to the rows of the current file: always in the parallel
\* one, past the checks of the file name in the sequential one
ReadsRows ==
  \/ variant = "par"
  \/ /\ pattern_search(filename) # NoMatch
     /\ \A i \in {1, 2} : pattern_search(filename)[i] \in DOMAIN taxon_to_wdid

\* C6 as stated, for the files the pipeline gets to parse: a file that cannot
\* be read, or that has no gene1 or gene2 column, is recorded under
\* error-loading-files and skipped, and never ends the run.
C6_UnparsableFileRecorded ==
  (/\ loaded.read
   /\ \/ loaded.kind = "Unreadable"
      \/ loaded.kind = "NoGeneColumns" /\ ReadsRows)
    => /\ filename \in errors["error_loading_files"] \cup error_loading_files
       /\ pc # "aborted"

\* C7 as stated: in write mode the submissions are exactly statement A and
\* statement B of every validated pair, in order, and nothing else.
C7_TwoSubmissionsPerPair ==
  write =>
    /\ Len(submissions) = 2 * Len(valid_orthos)
    /\ \A i \in 1..Len(valid_orthos) :
         LET v == valid_orthos[i] IN
         /\ 2 * i <= Len(submissions)
         /\ submissions[2 * i - 1].item =
              [subject |-> v.gene1_wdid, property |-> "P684", value |-> v.gene2_wdid,
               qualifier |-> [property |-> "P703", value |-> v.taxon2_wdid],
               stated_in |-> [property |-> "P248", value |-> "Q7104801"],
               reference_url |-> [property |-> "P854", value |-> v.oma_url1]]
         /\ submissions[2 * i].item =
              [subject |-> v.gene2_wdid, property |-> "P684", value |-> v.gene1_wdid,
               qualifier |-> [property |-> "P703", value |-> v.taxon1_wdid],
               stated_in |-> [property |-> "P248", value |-> "Q7104801"],
               reference_url |-> [property |-> "P854", value |-> v.oma_url2]]

\* C8 as stated: a failure to build or to submit statement A is followed by
\* the submission of statement B, and no failure on a statement ends the run.
C8_StatementFailuresAreLocal ==
  /\ abortCause \notin {"WDItemEngine: item1", "WDItemEngine: item2"}
  /\ \A i \in 1..Len(submissions) :
       (i % 2 = 1 /\ ~submissions[i].ok) => i + 1 <= Len(submissions)

\* C9 as stated: at the end of a run of either pipeline, a validated pair one
\* of whose genes has several encodes claims is built from the first claim
\* and that gene is in the more_than_1_encodes bucket.
C9_MultipleEncodesWarned ==
  pc = "done" =>
    \A i \in 1..Len(valid_orthos) :
      LET v == valid_orthos[i]
          claims1 == kb[geneid_to_wdid[v.gene1]].claims
          claims2 == kb[geneid_to_wdid[v.gene2]].claims
      IN /\ Len(claims1) > 1 =>
              /\ v.prot1_wdid = claims1[1].id
              /\ v.gene1 \in errors["more_than_1_encodes"]
         /\ Len(claims2) > 1 =>
              /\ v.prot2_wdid = claims2[1].id
              /\ v.gene2 \in errors["more_than_1_encodes"]

\* C10 as stated: the rows of a readable file whose name does not match the
\* pattern are still filtered and handled: its genes without item are in the
\* gene-not-found bucket and its mapped rows are the rows to resolve.
C10_UnmatchedFileStillValidated ==
  (variant = "seq" /\ loaded.read /\ loaded.kind = "Table"
     /\ pattern_search(filename) = NoMatch)
    => /\ loaded.missing \subseteq errors["gene_not_found"]
       /\ Len(df) = loaded.mapped

\* C10 amended: the sequential pipeline skips a readable file whose name does
\* not match the pattern as a whole: the step that reads it changes no error
\* bucket, no validated pair, makes no lookup, leaves no row to handle, and
\* the run goes on to the next file.
C10_UnmatchedFileSkipped ==
  [][ (variant = "seq" /\ loaded'.read /\ loaded'.kind # "Unreadable"
         /\ filename' # filename /\ pattern_search(filename') = NoMatch)
      => /\ errors' = errors
         /\ valid_orthos' = valid_orthos
         /\ fetches' = fetches
         /\ probes' = probes
         /\ df' = << >>
         /\ pc' = "process" ]_vars

\* a table with a mapped row and a gene without item was read from
\* homologs.csv, and the run looks for the next file
C10_Witness ==
  /\ variant = "seq"
  /\ loaded.read
  /\ filename = "homologs.csv"
  /\ loaded.kind = "Table"
  /\ loaded.missing # {}
  /\ loaded.mapped > 0
  /\ pc = "process"

\* C11: every row dropped because gene1 or gene2 failed protein resolution
\* (the entity fetch raised, the encodes claim was absent, or the extraction
\* of the protein id or UniProt accession from the first claim failed) left
\* the failing gene in the missing-encodes bucket and gene1+gene2 in the
\* pairs-lost bucket, once the results of its file are merged.
C11_ResolutionFailuresTraceable ==
  pc # "apply" =>
    \A row \in unresolvedRows :
      /\ {row[1], row[2]} \cap errors["missing_encodes_infos"] # {}
      /\ row[1] \o row[2] \in errors["pairs_lost_due_to_missing_prot_info"]

====
